---- MODULE Spec2Model ----
(***************************************************************************)
(* Header Adjuster (Netajam/header-adjuster): the header parser, the level *)
(* adjuster, the change applier and the orchestrator of headerUtils, over  *)
(* an editor buffer held as a sequence of lines, each line a sequence of   *)
(* one-character strings.                                                   *)
(*                                                                         *)
(* The repository holds two builds of headerUtils: src/unnamed/part_000    *)
(* (Spec, SpecLevels, SpecRepeat) and src/unnamed/part_001 (Spec_001).     *)
(* parseHeaders and updateHeaderLevels are the same in both; the two       *)
(* differ in applyHeaderChanges and processHeaderAdjustment.               *)
(*                                                                         *)
(* SpecParse is parseHeaders alone, SpecUpdate the forEach of              *)
(* updateHeaderLevels one header at a time, and SpecModal the level input  *)
(* modal of src/src in front of processHeaderAdjustment of part_000.       *)
(* SpecSame runs one operation again and again over one range.             *)
(***************************************************************************)
EXTENDS Integers, Sequences, FiniteSets, TLC

VARIABLES
  buffer,        \* the editor's lines (editor.getLine(i) is buffer[i+1])
  before,        \* the buffer at the start of the last run
  before2,       \* the buffer at the start of the run before the last one
  headers,       \* headersInRange of the last run, after updateHeaderLevels
  operation,     \* arguments of the last run
  levels,
  fromLine,
  toLine,
  notice,        \* the Notice messages the last run or handler showed
  console,       \* the console messages the last run logged
  transactions,  \* the change lists the last run passed to editor.transaction
  runs,          \* number of runs so far
  modal,         \* the LevelInputModal: whether it is open, its operation and
                 \* the values of its three input elements
  visited        \* the headers the forEach of updateHeaderLevels has visited,
                 \* in order, each with the level it was assigned

vars == <<buffer, before, before2, headers, operation, levels, fromLine, toLine,
          notice, console, transactions, runs, modal, visited>>

----------------------------------------------------------------------------
(* Bounds of the model *)

MaxLines == 2        \* longest document of Spec, Spec_001 and SpecRepeat
MaxHeaders == 4      \* longest document of SpecLevels
MaxMagnitude == 5    \* largest magnitude a caller passes
MaxRuns == 2         \* runs per behaviour of SpecRepeat
MaxModalLines == 3   \* longest document of SpecModal
MaxSameRuns == 11    \* runs per behaviour of SpecSame

(* Program constants *)

MinLevel == 1
MaxLevel == 6
Null == 0            \* parent: HeaderObject | null, as an index into the array

Max(a, b) == IF a >= b THEN a ELSE b
Min(a, b) == IF a <= b THEN a ELSE b

Hashes(n) == [i \in 1..n |-> "#"]           \* '#'.repeat(n)

Reverse(s) == [i \in 1..Len(s) |-> s[Len(s) + 1 - i]]

\* an optional argument: <<>> is undefined, <<n>> is the number n
Undefined == <<>>
Some(n) == <<n>>
\* x ?? d
Coalesce(x, d) == IF x = Undefined THEN d ELSE x[1]

----------------------------------------------------------------------------
\* HEADER_REGEX: one to six '#', then whitespace, then the content

IsSpace(c) == c \in {" ", "\t"}

RECURSIVE CountHashes(_, _)
CountHashes(line, i) ==
  IF i <= Len(line) /\ line[i] = "#" THEN CountHashes(line, i + 1) ELSE i - 1

RECURSIVE SkipSpaces(_, _)
SkipSpaces(line, i) ==
  IF i <= Len(line) /\ IsSpace(line[i]) THEN SkipSpaces(line, i + 1) ELSE i

NoMatch == <<>>

\* mutant: any number of hashes is accepted
HEADER_REGEX_unbounded(line) ==
  LET h == CountHashes(line, 1) IN
  IF h >= 1 /\ h < Len(line) /\ IsSpace(line[h + 1])
  THEN <<SubSeq(line, 1, h), SubSeq(line, SkipSpaces(line, h + 1), Len(line))>>
  ELSE NoMatch

\* the match array without its element 0: <<group 1, group 2>>, or NoMatch.
\* The run of hashes must be the whole leading run: what follows group 1 has
\* to be whitespace, so a seventh '#' (or any non-space) defeats the match.
HEADER_REGEX(line) ==
  LET h == CountHashes(line, 1) IN
  IF h >= 1 /\ h <= 6 /\ h < Len(line) /\ IsSpace(line[h + 1])
  THEN <<SubSeq(line, 1, h), SubSeq(line, SkipSpaces(line, h + 1), Len(line))>>
  ELSE NoMatch

----------------------------------------------------------------------------
(* class HeaderObject; parent and children are indices into the array *)

HeaderObject(level, lineNumber, content, parent) ==
  [level |-> level, originalLevel |-> level, lineNumber |-> lineNumber,
   content |-> content, parent |-> parent, children |-> <<>>]

----------------------------------------------------------------------------
(* parseHeaders *)

\* mutant: an ancestor of the same level is taken as the parent
RECURSIVE FindAncestor_equalLevel(_, _, _)
FindAncestor_equalLevel(hs, parentCandidate, currentLevel) ==
  IF parentCandidate # Null /\ hs[parentCandidate].level > currentLevel
  THEN FindAncestor_equalLevel(hs, hs[parentCandidate].parent, currentLevel)
  ELSE parentCandidate

\* while (parentCandidate && parentCandidate.level >= currentLevel)
RECURSIVE FindAncestor(_, _, _)
FindAncestor(hs, parentCandidate, currentLevel) ==
  IF parentCandidate # Null /\ hs[parentCandidate].level >= currentLevel
  THEN FindAncestor(hs, hs[parentCandidate].parent, currentLevel)
  ELSE parentCandidate

\* the parent the new header gets
ResolveParent(hs, lastHeader, currentLevel) ==
  IF lastHeader = Null THEN Null
  ELSE IF currentLevel > hs[lastHeader].level THEN lastHeader
  ELSE FindAncestor(hs, hs[lastHeader].parent, currentLevel)

\* mutant: the new header is pushed onto the children of the previous header
AddHeader_linkLast(hs, lastHeader, i, match) ==
  LET currentLevel == Len(match[1])
      content == match[2]
      parent == ResolveParent(hs, lastHeader, currentLevel)
      newHeader == HeaderObject(currentLevel, i + 1, content, parent)
      linked == IF parent = Null THEN hs
                ELSE [hs EXCEPT ![lastHeader].children = Append(@, Len(hs) + 1)]
  IN Append(linked, newHeader)

\* the body of `if (match)`: the array with the new header pushed and linked
AddHeader(hs, lastHeader, i, match) ==
  LET currentLevel == Len(match[1])
      content == match[2]
      parent == ResolveParent(hs, lastHeader, currentLevel)
      newHeader == HeaderObject(currentLevel, i + 1, content, parent)
      linked == IF parent = Null THEN hs
                ELSE [hs EXCEPT ![parent].children = Append(@, Len(hs) + 1)]
  IN Append(linked, newHeader)

\* for (let i = start; i <= end; i++)
RECURSIVE ParseLoop(_, _, _, _, _)
ParseLoop(editor, i, end, hs, lastHeader) ==
  IF i > end THEN hs
  ELSE LET match == HEADER_REGEX(editor[i + 1]) IN
       IF match # NoMatch
       THEN ParseLoop(editor, i + 1, end, AddHeader(hs, lastHeader, i, match),
                      Len(hs) + 1)
       ELSE ParseLoop(editor, i + 1, end, hs, lastHeader)

\* mutant: the range is ignored and the whole document parsed
parseHeaders_wholeDocument(editor, from, to) ==
  ParseLoop(editor, 0, Len(editor) - 1, <<>>, Null)

parseHeaders(editor, from, to) ==
  LET lineCount == Len(editor)
      start == Max(0, from)
      end == Min(lineCount - 1, to)
  IN ParseLoop(editor, start, end, <<>>, Null)

----------------------------------------------------------------------------
(* updateHeaderLevels *)

\* mutant: increase is processed in document order too
sortedHeaders_documentOrder(hs, op) == [i \in 1..Len(hs) |-> i]

\* the order of processing, as indices into headers
sortedHeaders(hs, op) ==
  LET found == [i \in 1..Len(hs) |-> i] IN
  IF op = "decrease" THEN found ELSE Reverse(found)

\* mutant: a candidate equal to a child's level is let through
RECURSIVE ChildConstraint_strict(_, _, _, _)
ChildConstraint_strict(hs, children, j, newLevel) ==
  IF j > Len(children) THEN newLevel
  ELSE LET child == hs[children[j]] IN
       ChildConstraint_strict(hs, children, j + 1,
                              IF newLevel > child.level THEN child.level - 1
                              ELSE newLevel)

\* header.children.forEach(child => ...): the candidate after the children
RECURSIVE ChildConstraint(_, _, _, _)
ChildConstraint(hs, children, j, newLevel) ==
  IF j > Len(children) THEN newLevel
  ELSE LET child == hs[children[j]] IN
       ChildConstraint(hs, children, j + 1,
                       IF newLevel >= child.level THEN child.level - 1
                       ELSE newLevel)

\* mutant: no clamp to the minimum level
DecreaseLevel_noFloor(hs, h, lv) ==
  LET header == hs[h]
      candidate == header.originalLevel - lv
      newLevel == IF header.parent # Null /\ candidate <= hs[header.parent].level
                  THEN hs[header.parent].level + 1
                  ELSE candidate
  IN Min(newLevel, MaxLevel)

\* mutant: the parent's level is read as it was parsed, not as adjusted
DecreaseLevel_originalParent(hs, h, lv) ==
  LET header == hs[h]
      clamped == Max(MinLevel, header.originalLevel - lv)
      newLevel == IF header.parent # Null
                     /\ clamped <= hs[header.parent].originalLevel
                  THEN hs[header.parent].originalLevel + 1
                  ELSE clamped
  IN Min(newLevel, MaxLevel)

\* mutant: a header is put two levels below its parent
DecreaseLevel_twoBelowParent(hs, h, lv) ==
  LET header == hs[h]
      clamped == Max(MinLevel, header.originalLevel - lv)
      newLevel == IF header.parent # Null /\ clamped <= hs[header.parent].level
                  THEN hs[header.parent].level + 2
                  ELSE clamped
  IN Min(newLevel, MaxLevel)

\* the decrease branch: the level assigned to header h
DecreaseLevel(hs, h, lv) ==
  LET header == hs[h]
      clamped == Max(MinLevel, header.originalLevel - lv)
      newLevel == IF header.parent # Null /\ clamped <= hs[header.parent].level
                  THEN hs[header.parent].level + 1
                  ELSE clamped
  IN Min(newLevel, MaxLevel)

\* mutant: no clamp to the maximum level
IncreaseLevel_noCeiling(hs, h, lv) ==
  LET header == hs[h]
      newLevel == ChildConstraint(hs, header.children, 1, header.originalLevel + lv)
  IN Max(MinLevel, newLevel)

\* mutant: the children are not consulted
IncreaseLevel_noChildren(hs, h, lv) ==
  Max(MinLevel, Min(MaxLevel, hs[h].originalLevel + lv))

\* the increase branch: the level assigned to header h
IncreaseLevel(hs, h, lv) ==
  LET header == hs[h]
      clamped == Min(MaxLevel, header.originalLevel + lv)
      newLevel == ChildConstraint(hs, header.children, 1, clamped)
  IN Max(MinLevel, newLevel)

\* sortedHeaders.forEach(header => ...)
RECURSIVE UpdateLoop(_, _, _, _, _)
UpdateLoop(hs, order, k, op, lv) ==
  IF k > Len(order) THEN hs
  ELSE LET h == order[k]
           assigned == IF op = "decrease" THEN DecreaseLevel(hs, h, lv)
                       ELSE IncreaseLevel(hs, h, lv)
       IN UpdateLoop([hs EXCEPT ![h].level = assigned], order, k + 1, op, lv)

\* mutant: increase reverses the caller's array itself, not a copy
updateHeaderLevels_reverseInPlace(hs, op, lv) ==
  LET updated == UpdateLoop(hs, sortedHeaders(hs, op), 1, op, lv) IN
  IF op = "decrease" THEN updated ELSE Reverse(updated)

updateHeaderLevels(hs, op, lv) == UpdateLoop(hs, sortedHeaders(hs, op), 1, op, lv)

----------------------------------------------------------------------------
(* applyHeaderChanges *)

\* mutant: the comparator is a.lineNumber - b.lineNumber
RECURSIVE SortByLineDescending_ascending(_)
SortByLineDescending_ascending(hs) ==
  IF hs = <<>> THEN <<>>
  ELSE LET isMin(i) == \A j \in 1..Len(hs) : hs[i].lineNumber <= hs[j].lineNumber
           m == CHOOSE i \in 1..Len(hs) :
                  isMin(i) /\ \A j \in 1..(i - 1) : ~isMin(j)
           rest == SubSeq(hs, 1, m - 1) \o SubSeq(hs, m + 1, Len(hs))
       IN <<hs[m]>> \o SortByLineDescending_ascending(rest)

\* [...headers].sort((a, b) => b.lineNumber - a.lineNumber), a stable sort
RECURSIVE SortByLineDescending(_)
SortByLineDescending(hs) ==
  IF hs = <<>> THEN <<>>
  ELSE LET isMax(i) == \A j \in 1..Len(hs) : hs[i].lineNumber >= hs[j].lineNumber
           m == CHOOSE i \in 1..Len(hs) :
                  isMax(i) /\ \A j \in 1..(i - 1) : ~isMax(j)
           rest == SubSeq(hs, 1, m - 1) \o SubSeq(hs, m + 1, Len(hs))
       IN <<hs[m]>> \o SortByLineDescending(rest)

\* the text written for a header
newHeaderPrefix(header) == Hashes(header.level) \o <<" ">>

\* mutant: a change is built for every header, changed or not
PotentialChange_unfiltered(header) ==
  LET lineIndex == header.lineNumber - 1 IN
  <<[from |-> [line |-> lineIndex, ch |-> 0],
     to |-> [line |-> lineIndex, ch |-> header.originalLevel],
     text |-> Hashes(header.level) \o <<" ">>]>>

\* the change object of one header: <<>> is null, <<c>> is the change c
PotentialChange(header) ==
  IF header.level = header.originalLevel THEN <<>>
  ELSE LET lineIndex == header.lineNumber - 1 IN
       <<[from |-> [line |-> lineIndex, ch |-> 0],
          to |-> [line |-> lineIndex, ch |-> header.originalLevel],
          text |-> newHeaderPrefix(header)]>>

\* sortedHeaders.map(...).filter(change => change !== null)
RECURSIVE MapFilter(_)
MapFilter(sorted) ==
  IF sorted = <<>> THEN <<>>
  ELSE PotentialChange(Head(sorted)) \o MapFilter(Tail(sorted))

actualChanges(hs) == MapFilter(SortByLineDescending(hs))

\* one change of a transaction: the range from..to of its line replaced by text
ReplaceRange(editor, change) ==
  LET line == editor[change.from.line + 1] IN
  [editor EXCEPT ![change.from.line + 1] =
     SubSeq(line, 1, change.from.ch) \o change.text
       \o SubSeq(line, change.to.ch + 1, Len(line))]

\* editor.transaction({changes}): the buffer with every change made
RECURSIVE Transaction(_, _)
Transaction(editor, changes) ==
  IF changes = <<>> THEN editor
  ELSE Transaction(ReplaceRange(editor, Head(changes)), Tail(changes))

\* part_000: the transactions issued, a list of change lists
applyHeaderChanges(hs) ==
  LET changes == actualChanges(hs) IN
  IF Len(changes) > 0 THEN <<changes>> ELSE <<>>

\* part_001: the transaction is issued whatever the change list holds
applyHeaderChanges_001(hs) == <<actualChanges(hs)>>

\* the buffer after the transactions of a run
RECURSIVE Commit(_, _)
Commit(editor, txs) ==
  IF txs = <<>> THEN editor
  ELSE Commit(Transaction(editor, Head(txs)), Tail(txs))

----------------------------------------------------------------------------
(* processHeaderAdjustment *)

Message(text, args) == [text |-> text, args |-> args]

\* mutant: every parsed header is counted
changedCount_all(hs) == Len(hs)

changedCount(hs) ==
  Cardinality({i \in 1..Len(hs) : hs[i].level # hs[i].originalLevel})

\* a run that returns before parsing
Abort(log) ==
  /\ buffer' = buffer
  /\ headers' = <<>>
  /\ notice' = <<>>
  /\ console' = <<log>>
  /\ transactions' = <<>>

\* what every run records
Called(op, lv, fl, tl) ==
  /\ operation' = op
  /\ levels' = lv
  /\ fromLine' = fl
  /\ toLine' = tl
  /\ before' = buffer
  /\ before2' = before
  /\ runs' = runs + 1

\* a run that parsed and found no header
NoHeaders(log) ==
  /\ buffer' = buffer
  /\ headers' = <<>>
  /\ notice' = <<Message("No headers found in the specified range/selection.", <<>>)>>
  /\ console' = log
  /\ transactions' = <<>>

\* part_000, lines 285-334. The consts of the code are bound once each, by
\* \E over a singleton.
processHeaderAdjustment(op, lv, fl, tl) ==
  LET startLine == Coalesce(fl, 0)
      endLine == Coalesce(tl, Len(buffer) - 1)
      parsing == Message("Parsing headers from line %1 to %2",
                         <<startLine + 1, endLine + 1>>)
  IN
  /\ Called(op, lv, fl, tl)
  /\ IF startLine > endLine
     THEN Abort(Message("Start line is after end line, skipping adjustment.", <<>>))
     ELSE IF lv = 0
     THEN Abort(Message("Adjustment level is 0, skipping.", <<>>))
     ELSE IF lv < 0
     THEN Abort(Message("Adjustment level is negative, skipping.", <<>>))
     ELSE \E headersInRange \in {parseHeaders(buffer, startLine, endLine)} :
       IF Len(headersInRange) = 0
       THEN NoHeaders(<<parsing>>)
       ELSE \E updated \in {updateHeaderLevels(headersInRange, op, lv)} :
            \E txs \in {applyHeaderChanges(updated)} :
            \E count \in {changedCount(updated)} :
              /\ buffer' = Commit(buffer, txs)
              /\ headers' = updated
              /\ transactions' = txs
              /\ console' =
                   <<parsing,
                     Message("Found %1 headers in range.", <<Len(headersInRange)>>),
                     IF txs # <<>>
                     THEN Message("Applying changes:", <<Len(txs[1])>>)
                     ELSE Message("No header level changes to apply.", <<>>)>>
              /\ notice' =
                   IF count > 0
                   THEN <<Message("Adjusted %1 header(s).", <<count>>)>>
                   ELSE <<Message("No header levels needed adjustment in the range.", <<>>)>>

\* part_001, lines 158-188: no check of the magnitude, no console log past
\* the range check, one Notice for every count
processHeaderAdjustment_001(op, lv, fl, tl) ==
  LET startLine == Coalesce(fl, 0)
      endLine == Coalesce(tl, Len(buffer) - 1)
  IN
  /\ Called(op, lv, fl, tl)
  /\ IF startLine > endLine
     THEN Abort(Message("Start line is after end line, skipping adjustment.", <<>>))
     ELSE \E headersInRange \in {parseHeaders(buffer, startLine, endLine)} :
       IF Len(headersInRange) = 0
       THEN NoHeaders(<<>>)
       ELSE \E updated \in {updateHeaderLevels(headersInRange, op, lv)} :
            \E txs \in {applyHeaderChanges_001(updated)} :
            \E count \in {changedCount(updated)} :
              /\ buffer' = Commit(buffer, txs)
              /\ headers' = updated
              /\ transactions' = txs
              /\ console' = <<>>
              /\ notice' = <<Message("Adjusted %1 header(s).", <<count>>)>>

----------------------------------------------------------------------------
(* LevelInputModal and openLevelInputModal (src/src) *)

Digits == <<"0", "1", "2", "3", "4", "5", "6", "7", "8", "9">>
IsDigit(c) == \E d \in 1..Len(Digits) : Digits[d] = c
DigitValue(c) == (CHOOSE d \in 1..Len(Digits) : Digits[d] = c) - 1

\* a JavaScript number as parseInt returns it
NaN == [nan |-> TRUE, n |-> 0]
Number(n) == [nan |-> FALSE, n |-> n]

RECURSIVE ParseDigits(_, _, _)
ParseDigits(str, i, acc) ==
  IF i <= Len(str) /\ IsDigit(str[i])
  THEN ParseDigits(str, i + 1, acc * 10 + DigitValue(str[i]))
  ELSE acc

\* parseInt(str, 10): an optional sign, then the leading digits; what follows
\* them is ignored, and a string without leading digits gives NaN
parseInt(str) ==
  LET negative == str # <<>> /\ str[1] = "-"
      first == IF negative THEN 2 ELSE 1
  IN IF first > Len(str) \/ ~IsDigit(str[first]) THEN NaN
     ELSE Number(IF negative THEN 0 - ParseDigits(str, first, 0)
                 ELSE ParseDigits(str, first, 0))

\* el.value ? parseInt(el.value, 10) : null
InputNumber(value) == IF value # <<>> THEN Some(parseInt(value)) ELSE Undefined

\* the first check of the click handler that fails, as its Notice, or <<>>
SubmitError(levelsValue, lv, startLine, endLine) ==
  IF levelsValue # <<>> /\ (lv[1].nan \/ lv[1].n < 1)
  THEN <<Message("Please enter a valid positive number for levels.", <<>>)>>
  ELSE IF startLine # Undefined /\ (startLine[1].nan \/ startLine[1].n < 1)
  THEN <<Message("Please enter a valid positive number for start line.", <<>>)>>
  ELSE IF endLine # Undefined /\ (endLine[1].nan \/ endLine[1].n < 1)
  THEN <<Message("Please enter a valid positive number for end line.", <<>>)>>
  ELSE IF startLine # Undefined /\ endLine # Undefined /\ endLine[1].n < startLine[1].n
  THEN <<Message("End line cannot be before start line.", <<>>)>>
  ELSE <<>>

\* what the handler hands to onSubmit: the number, or undefined / null
Passed(x) == IF x = Undefined THEN Undefined ELSE Some(x[1].n)

\* a number | null used as a condition
Truthy(x) == x # Undefined /\ x[1] # 0

\* const levels = levelsInput ?? (operation === 'increase' ? ... : ...)
onSubmit_levels(levelsInput, op, settings) ==
  Coalesce(levelsInput, IF op = "increase" THEN settings.increaseLevel
                        ELSE settings.decreaseLevel)

\* mutant: the 1-based start line is passed on as it was typed
onSubmit_startLine_oneBased(startLineInput) ==
  IF Truthy(startLineInput) THEN startLineInput[1] ELSE 0

\* const startLine = startLineInput ? startLineInput - 1 : 0
onSubmit_startLine(startLineInput) ==
  IF Truthy(startLineInput) THEN startLineInput[1] - 1 ELSE 0

\* const endLine = endLineInput ? endLineInput - 1 : undefined
onSubmit_endLine(endLineInput) ==
  IF Truthy(endLineInput) THEN Some(endLineInput[1] - 1) ELSE Undefined

----------------------------------------------------------------------------
(* Documents and arguments *)

Text == <<"a">>

\* lines of Spec and Spec_001: headers with one space, two spaces and a tab
\* after the hashes, and lines the pattern rejects
LineShapes ==
  { Hashes(1) \o <<" ">> \o Text,
    Hashes(1) \o <<" ">>,
    Hashes(2) \o <<" ", " ">> \o Text,
    Hashes(3) \o <<" ">> \o Text,
    Hashes(6) \o <<"\t">> \o Text,
    Hashes(7) \o <<" ">> \o Text,
    Hashes(1) \o Text,
    Text,
    <<>> }

\* lines of SpecLevels and SpecRepeat: a header of each level, and plain text
LevelShapes == { Hashes(k) \o <<" ">> \o Text : k \in MinLevel..MaxLevel } \cup { Text }

Documents(shapes, n) == UNION { [1..k -> shapes] : k \in 1..n }

Operations == {"increase", "decrease"}
Magnitudes == (0 - 1)..MaxMagnitude
Shifts == 1..MaxMagnitude
FromLines == {Undefined} \cup { Some(n) : n \in (0 - 1)..Len(buffer) }
ToLines == {Undefined} \cup { Some(n) : n \in 0..Len(buffer) }

\* lines of SpecParse: headers of three levels written with a space, two
\* spaces and a tab, and lines the pattern rejects
ParseShapes ==
  { Hashes(1) \o <<" ">> \o Text,
    Hashes(2) \o <<" ", " ">> \o Text,
    Hashes(3) \o <<"\t">> \o Text,
    Hashes(7) \o <<" ">> \o Text,
    Hashes(1) \o Text,
    Text }

\* lines of SpecUpdate: headers of the levels 1, 2, 3 and 6, and plain text
UpdateShapes ==
  { Hashes(k) \o <<" ">> \o Text : k \in {MinLevel, 2, 3, MaxLevel} } \cup { Text }

\* lines of SpecSame: headers of the levels 1, 2 and 6, and plain text
SameShapes ==
  { Hashes(k) \o <<" ">> \o Text : k \in {MinLevel, 2, MaxLevel} } \cup { Text }

\* no LevelInputModal has been constructed
ModalClosed ==
  [open |-> FALSE, operation |-> "none", levelsInputEl |-> <<>>,
   startLineInputEl |-> <<>>, endLineInputEl |-> <<>>]

\* lines of SpecModal
ModalShapes == { Hashes(k) \o <<" ">> \o Text : k \in MinLevel..2 } \cup { Text }

\* what a user leaves in a line field of the modal: nothing, a line number
\* (0 included), a negative number, a number of two digits
InputValues ==
  { <<>>, <<"-", "1">>, <<"1", "0">> }
    \cup { <<Digits[n + 1]>> : n \in 0..MaxModalLines }
LevelValues == { <<>>, <<"0">>, <<"2">> }

\* plugin.settings: each default is set by a slider
SliderMin == 1
SliderMax == 5
Settings == [increaseLevel : SliderMin..SliderMax, decreaseLevel : SliderMin..SliderMax]

Idle ==
  /\ modal = ModalClosed
  /\ visited = <<>>
  /\ before = buffer
  /\ before2 = buffer
  /\ headers = <<>>
  /\ operation = "none"
  /\ levels = 0
  /\ fromLine = Undefined
  /\ toLine = Undefined
  /\ notice = <<>>
  /\ console = <<>>
  /\ transactions = <<>>
  /\ runs = 0

----------------------------------------------------------------------------
(* Specifications *)

\* The orchestrator keeps nothing from one invocation to the next (the forest
\* is built from the buffer each time), so a behaviour of Spec, Spec_001 and
\* SpecLevels is one invocation on a document; SpecRepeat chains invocations.
FirstCall == runs = 0

\* the build of part_000, called once with any arguments on any document
Init == buffer \in Documents(LineShapes, MaxLines) /\ Idle

Next ==
  /\ FirstCall
  /\ \E op \in Operations, lv \in Magnitudes, fl \in FromLines, tl \in ToLines :
       processHeaderAdjustment(op, lv, fl, tl)
  /\ UNCHANGED <<modal, visited>>

Spec == Init /\ [][Next]_vars

\* the build of part_001, called once with any arguments on any document
Next_001 ==
  /\ FirstCall
  /\ \E op \in Operations, lv \in Magnitudes, fl \in FromLines, tl \in ToLines :
       processHeaderAdjustment_001(op, lv, fl, tl)
  /\ UNCHANGED <<modal, visited>>

Spec_001 == Init /\ [][Next_001]_vars

\* the build of part_000 on documents of headers of every level, adjusted
\* as a whole by a magnitude of at least 1
InitLevels == buffer \in Documents(LevelShapes, MaxHeaders) /\ Idle

NextLevels ==
  /\ FirstCall
  /\ \E op \in Operations, lv \in Shifts :
       processHeaderAdjustment(op, lv, Undefined, Undefined)
  /\ UNCHANGED <<modal, visited>>

SpecLevels == InitLevels /\ [][NextLevels]_vars

\* the same, run after run on one document
InitRepeat == buffer \in Documents(LevelShapes, MaxLines) /\ Idle

NextRepeat ==
  /\ runs < MaxRuns
  /\ \E op \in Operations, lv \in Shifts :
       processHeaderAdjustment(op, lv, Undefined, Undefined)
  /\ UNCHANGED <<modal, visited>>

SpecRepeat == InitRepeat /\ [][NextRepeat]_vars

\* one operation run again and again over one range of a document, each run
\* with any magnitude of at least 1
InitSame == buffer \in Documents(SameShapes, MaxLines) /\ Idle

NextSame ==
  /\ runs < MaxSameRuns
  /\ \E op \in Operations, lv \in Shifts :
      \E first \in 0..(Len(buffer) - 1) : \E last \in first..(Len(buffer) - 1) :
       /\ FirstCall \/ (op = operation /\ Some(first) = fromLine /\ Some(last) = toLine)
       /\ processHeaderAdjustment(op, lv, Some(first), Some(last))
  /\ UNCHANGED <<modal, visited>>

SpecSame == InitSame /\ [][NextSame]_vars

\* parseHeaders alone, called once with any two line numbers, also ones that
\* lie outside the document or are out of order
InitParse == buffer \in Documents(ParseShapes, MaxHeaders) /\ Idle

NextParse ==
  /\ FirstCall
  /\ \E from \in (0 - 1)..(Len(buffer) + 1), to \in (0 - 1)..(Len(buffer) + 1) :
       /\ headers' = parseHeaders(buffer, from, to)
       /\ fromLine' = Some(from)
       /\ toLine' = Some(to)
  /\ before' = buffer
  /\ before2' = before
  /\ runs' = runs + 1
  /\ UNCHANGED <<buffer, operation, levels, notice, console, transactions, modal,
                 visited>>

SpecParse == InitParse /\ [][NextParse]_vars

\* updateHeaderLevels on the forest of a whole document, one header of its
\* forEach at a time
InitUpdate == buffer \in Documents(UpdateShapes, MaxHeaders) /\ Idle

\* updateHeaderLevels(headers, operation, levels) is entered
EnterUpdate(op, lv) ==
  /\ FirstCall
  /\ headers' = parseHeaders(buffer, 0, Len(buffer) - 1)
  /\ operation' = op
  /\ levels' = lv
  /\ runs' = runs + 1
  /\ visited' = <<>>
  /\ UNCHANGED <<buffer, before, before2, fromLine, toLine, notice, console,
                 transactions, modal>>

\* one call of the forEach callback, lines 208-231
VisitHeader ==
  /\ runs > 0
  /\ Len(visited) < Len(headers)
  /\ \E h \in {sortedHeaders(headers, operation)[Len(visited) + 1]} :
       \E assigned \in {IF operation = "decrease"
                         THEN DecreaseLevel(headers, h, levels)
                         ELSE IncreaseLevel(headers, h, levels)} :
         /\ headers' = [headers EXCEPT ![h].level = assigned]
         /\ visited' = Append(visited, [header |-> h, level |-> assigned])
  /\ UNCHANGED <<buffer, before, before2, operation, levels, fromLine, toLine,
                 notice, console, transactions, runs, modal>>

NextUpdate ==
  \/ \E op \in Operations, lv \in Shifts : EnterUpdate(op, lv)
  \/ VisitHeader

SpecUpdate == InitUpdate /\ [][NextUpdate]_vars

\* the level input modal: a command opens it, Submit validates the three
\* fields and hands them to the callback of openLevelInputModal, which calls
\* processHeaderAdjustment of part_000
modalFrame == <<buffer, before, before2, headers, operation, levels, fromLine,
                toLine, console, transactions, runs>>

\* openLevelInputModal(plugin, operation): new LevelInputModal(...).open()
openLevelInputModal(op) ==
  /\ FirstCall
  /\ ~modal.open
  /\ modal' = [open |-> TRUE, operation |-> op, levelsInputEl |-> <<>>,
               startLineInputEl |-> <<>>, endLineInputEl |-> <<>>]
  /\ notice' = <<>>
  /\ UNCHANGED modalFrame

\* the user fills in or clears one of the three fields
Input ==
  /\ FirstCall
  /\ modal.open
  /\ \/ \E value \in LevelValues : modal' = [modal EXCEPT !.levelsInputEl = value]
     \/ \E value \in InputValues : modal' = [modal EXCEPT !.startLineInputEl = value]
     \/ \E value \in InputValues : modal' = [modal EXCEPT !.endLineInputEl = value]
  /\ notice' = <<>>
  /\ UNCHANGED modalFrame

\* the callback handed to the modal, commands.ts lines 11-24
onSubmit(levelsInput, startLineInput, endLineInput, op, activeEditor) ==
  IF ~activeEditor
  THEN /\ notice' = <<Message("No active editor found.", <<>>)>>
       /\ UNCHANGED modalFrame
  ELSE \/ /\ levelsInput # Undefined
          /\ processHeaderAdjustment(op, levelsInput[1],
                                     Some(onSubmit_startLine(startLineInput)),
                                     onSubmit_endLine(endLineInput))
       \/ /\ levelsInput = Undefined
          /\ \E settings \in Settings :
               processHeaderAdjustment(op, onSubmit_levels(levelsInput, op, settings),
                                       Some(onSubmit_startLine(startLineInput)),
                                       onSubmit_endLine(endLineInput))

\* the Submit button's onClick, LevelInputModal.ts lines 70-93
SubmitClick ==
  /\ FirstCall
  /\ modal.open
  /\ \E lv \in {InputNumber(modal.levelsInputEl)},
        startLine \in {InputNumber(modal.startLineInputEl)},
        endLine \in {InputNumber(modal.endLineInputEl)} :
       \E error \in {SubmitError(modal.levelsInputEl, lv, startLine, endLine)} :
         IF error # <<>>
         THEN /\ notice' = error
              /\ UNCHANGED <<modalFrame, modal>>
         ELSE /\ \E activeEditor \in BOOLEAN :
                   onSubmit(Passed(lv), Passed(startLine), Passed(endLine),
                            modal.operation, activeEditor)
              /\ modal' = [modal EXCEPT !.open = FALSE]

\* the Cancel button's onClick
CancelClick ==
  /\ FirstCall
  /\ modal.open
  /\ modal' = [modal EXCEPT !.open = FALSE]
  /\ notice' = <<>>
  /\ UNCHANGED modalFrame

InitModal == buffer \in Documents(ModalShapes, MaxModalLines) /\ Idle

NextModal ==
  /\ \/ \E op \in Operations : openLevelInputModal(op)
     \/ Input
     \/ SubmitClick
     \/ CancelClick
  /\ UNCHANGED visited

SpecModal == InitModal /\ [][NextModal]_vars

----------------------------------------------------------------------------
(* Properties *)

\* the last run parsed headers and adjusted them
Adjusted == runs > 0 /\ headers # <<>>

HasParent(i) == headers[i].parent # Null

\* length of the longest path from header i down to a leaf
RECURSIVE Height(_, _)
RECURSIVE MaxChildHeight(_, _, _)
Height(hs, i) ==
  IF hs[i].children = <<>> THEN 0
  ELSE 1 + MaxChildHeight(hs, hs[i].children, 1)
MaxChildHeight(hs, children, j) ==
  IF j > Len(children) THEN 0
  ELSE Max(Height(hs, children[j]), MaxChildHeight(hs, children, j + 1))

\* C1: after updateHeaderLevels (increase or decrease, magnitude >= 1) every
\* header with a parent has a level strictly above its parent's, and every
\* header with children a level strictly below each of its children's.
C1_ChildAboveParent ==
  Adjusted =>
    /\ \A i \in 1..Len(headers) :
         HasParent(i) => headers[i].level > headers[headers[i].parent].level
    /\ \A i \in 1..Len(headers) :
         \A j \in 1..Len(headers[i].children) :
           headers[i].level < headers[headers[i].children[j]].level

\* an increase in which a child's adjusted level held its parent back
C1_Witness ==
  /\ Adjusted
  /\ operation = "increase"
  /\ levels >= 1
  /\ \E i \in 1..Len(headers) :
       /\ headers[i].children # <<>>
       /\ headers[i].level < Min(MaxLevel, headers[i].originalLevel + levels)

\* C2: after updateHeaderLevels (increase or decrease, magnitude >= 1) every
\* header's level is within 1..6, also where a parent or child forced it.
C2_LevelInRange ==
  Adjusted =>
    \A i \in 1..Len(headers) : headers[i].level \in MinLevel..MaxLevel

\* a decrease in which the adjusted parent forced a level other than
\* originalLevel - magnitude clamped
C2_Witness ==
  /\ Adjusted
  /\ operation = "decrease"
  /\ levels >= 1
  /\ \E i \in 1..Len(headers) :
       /\ HasParent(i)
       /\ headers[i].level # Max(MinLevel, headers[i].originalLevel - levels)

\* C6: when originalLevel + m <= 6 for every parsed header, increase by m
\* gives every header exactly originalLevel + m.
C6_ExactShift ==
  ( /\ Adjusted
    /\ operation = "increase"
    /\ \A i \in 1..Len(headers) : headers[i].originalLevel + levels <= MaxLevel )
  => \A i \in 1..Len(headers) :
       headers[i].level = headers[i].originalLevel + levels

\* such an increase, by 2 or more, of a header that has a child
C6_Witness ==
  /\ Adjusted
  /\ operation = "increase"
  /\ levels >= 2
  /\ \A i \in 1..Len(headers) : headers[i].originalLevel + levels <= MaxLevel
  /\ \E i \in 1..Len(headers) : headers[i].children # <<>>

\* C7: an increase by m >= 5 gives every header the level 6 - h, h being the
\* header's height in the parsed forest.
C7_SaturatedHeight ==
  (Adjusted /\ operation = "increase" /\ levels >= 5)
  => \A i \in 1..Len(headers) :
       headers[i].level = MaxLevel - Height(headers, i)

\* the chain A(1) > B(2) > C(3), saturated: C = 6, B = 5, A = 4
C7_Witness ==
  /\ Adjusted
  /\ operation = "increase"
  /\ levels >= 5
  /\ Len(headers) = 3
  /\ [i \in 1..3 |-> headers[i].originalLevel] = <<1, 2, 3>>
  /\ [i \in 1..3 |-> headers[i].level] = <<4, 5, 6>>

\* the range of the last run, zero-based and inclusive, as the orchestrator
\* resolved it
StartLine == Coalesce(fromLine, 0)
EndLine == Coalesce(toLine, Len(before) - 1)
InRange(i) == StartLine <= i - 1 /\ i - 1 <= EndLine

IsHeaderLine(line) == HEADER_REGEX(line) # NoMatch

\* the lines the last run rewrote
ModifiedLines == {i \in 1..Len(before) : buffer[i] # before[i]}

\* C3: processHeaderAdjustment leaves the buffer as it was and issues no
\* transaction when fromLine > toLine, when the magnitude is 0, when it is
\* negative, and when the range holds no header line.
C3_AbortsLeaveBuffer ==
  ( /\ runs > 0
    /\ \/ StartLine > EndLine
       \/ levels = 0
       \/ levels < 0
       \/ parseHeaders(before, StartLine, EndLine) = <<>> )
  => (buffer = before /\ transactions = <<>>)

\* C4: a run over [fromLine, toLine] leaves every line outside the range as
\* it was, whatever header it holds.
C4_OutsideRangeUnchanged ==
  runs > 0 =>
    /\ Len(buffer) = Len(before)
    /\ \A i \in 1..Len(before) : ~InRange(i) => buffer[i] = before[i]

\* an increase that rewrote a line of the range while a header below level 6
\* stood outside it
C4_Witness ==
  /\ runs > 0
  /\ operation = "increase"
  /\ \E i, j \in 1..Len(before) :
       /\ InRange(i)
       /\ buffer[i] # before[i]
       /\ ~InRange(j)
       /\ IsHeaderLine(before[j])
       /\ Len(HEADER_REGEX(before[j])[1]) < MaxLevel

\* C5: every header line whose level changed is `level` hashes, one
\* whitespace character, and the content.
C5_SingleSeparator ==
  Adjusted =>
    \A i \in 1..Len(headers) :
      headers[i].level # headers[i].originalLevel =>
        \E ws \in {" ", "\t"} :
          buffer[headers[i].lineNumber]
            = Hashes(headers[i].level) \o <<ws>> \o headers[i].content

\* what increase by m over the lines s..e makes of a document
IncreaseOf(doc, m, s, e) ==
  Commit(doc, applyHeaderChanges(
                updateHeaderLevels(parseHeaders(doc, s, e), "increase", m)))

\* C8: where no header of the range has level + m > 6, increase by m and then
\* decrease by m over the same range, each parsing the buffer anew, leave
\* every header at the level it had.
C8_RoundTrip ==
  LET original == parseHeaders(before2, StartLine, EndLine) IN
  ( /\ runs >= 2
    /\ operation = "decrease"
    /\ \A i \in 1..Len(original) : original[i].level + levels <= MaxLevel
    /\ before = IncreaseOf(before2, levels, StartLine, EndLine) )
  => /\ Len(headers) = Len(original)
     /\ \A i \in 1..Len(original) :
          /\ headers[i].lineNumber = original[i].lineNumber
          /\ headers[i].level = original[i].level
     /\ \A i \in 1..Len(buffer) :
          CountHashes(buffer[i], 1) = CountHashes(before2[i], 1)

\* such a round trip over a header and its child, both moved and moved back
C8_Witness ==
  LET original == parseHeaders(before2, StartLine, EndLine) IN
  /\ runs >= 2
  /\ operation = "decrease"
  /\ \A i \in 1..Len(original) : original[i].level + levels <= MaxLevel
  /\ before = IncreaseOf(before2, levels, StartLine, EndLine)
  /\ \E i \in 1..Len(headers) :
       /\ HasParent(i)
       /\ headers[i].level # headers[i].originalLevel
       /\ headers[headers[i].parent].level # headers[headers[i].parent].originalLevel

\* C9: a run that found headers reports the number of headers whose level
\* differs from originalLevel, which is the number of lines it rewrote; when
\* that number is 0 its Notice is not the one of a range without headers.
C9_ReportedCount ==
  Adjusted =>
    LET n == Cardinality({i \in 1..Len(headers) :
                            headers[i].level # headers[i].originalLevel})
    IN /\ n = Cardinality(ModifiedLines)
       /\ Len(notice) = 1
       /\ n > 0 => notice[1] = Message("Adjusted %1 header(s).", <<n>>)
       /\ n = 0 =>
            /\ notice[1].text = "No header levels needed adjustment in the range."
            /\ notice[1].text # "No headers found in the specified range/selection."

\* a run that changed some of the headers it parsed and not the others
C9_Witness ==
  /\ Adjusted
  /\ \E i, j \in 1..Len(headers) :
       /\ headers[i].level # headers[i].originalLevel
       /\ headers[j].level = headers[j].originalLevel

\* C10: a run keeps the number of lines, a line matches the header pattern
\* after it exactly if it did before, and every header parsed is still the
\* header on its line.
C10_LinesStayHeaders ==
  runs > 0 =>
    /\ Len(buffer) = Len(before)
    /\ \A i \in 1..Len(before) : IsHeaderLine(buffer[i]) <=> IsHeaderLine(before[i])
    /\ \A i \in 1..Len(headers) :
         /\ IsHeaderLine(buffer[headers[i].lineNumber])
         /\ HEADER_REGEX(buffer[headers[i].lineNumber])[2] = headers[i].content

\* a run that rewrote a header at level 6 or 1 next to a line of hashes the
\* pattern rejects
C10_Witness ==
  /\ runs > 0
  /\ \E i \in 1..Len(headers) :
       /\ headers[i].level # headers[i].originalLevel
       /\ headers[i].level \in {MinLevel, MaxLevel}
  /\ \E j \in 1..Len(before) :
       /\ InRange(j)
       /\ CountHashes(before[j], 1) >= 1
       /\ ~IsHeaderLine(before[j])

\* the headers of the last run whose level is not the one parsed
Changed == {h \in 1..Len(headers) : headers[h].level # headers[h].originalLevel}

\* C11: a completed run rewrites only lines of headers whose level differs
\* from originalLevel: a line that is not a header, and the line of a header
\* whose level is as parsed, are as before; on a rewritten line the content
\* (what follows the hashes and their whitespace) is as before.
C11_OnlyChangedHeaders ==
  runs > 0 =>
    /\ \A i \in ModifiedLines : \E h \in Changed : headers[h].lineNumber = i
    /\ \A i \in 1..Len(before) : ~IsHeaderLine(before[i]) => buffer[i] = before[i]
    /\ \A h \in 1..Len(headers) :
         h \notin Changed => buffer[headers[h].lineNumber] = before[headers[h].lineNumber]
    /\ \A h \in Changed :
         /\ HEADER_REGEX(buffer[headers[h].lineNumber])[2]
              = HEADER_REGEX(before[headers[h].lineNumber])[2]
         /\ HEADER_REGEX(buffer[headers[h].lineNumber])[2] = headers[h].content

\* a run that rewrote a header written with more than a space after its
\* hashes and left another header of the range at its level
C11_Witness ==
  /\ runs > 0
  /\ \E h \in Changed :
       /\ Len(before[headers[h].lineNumber]) >= headers[h].originalLevel + 2
       /\ before[headers[h].lineNumber][headers[h].originalLevel + 1] = " "
       /\ before[headers[h].lineNumber][headers[h].originalLevel + 2] = " "
       /\ headers[h].content = Text
  /\ \E g \in 1..Len(headers) :
       /\ g \notin Changed
       /\ buffer[headers[g].lineNumber] = before[headers[g].lineNumber]

\* the 1-based range the fields of the modal stand for: a blank start line
\* is the first line, a blank end line the last
ModalStart ==
  IF modal.startLineInputEl = <<>> THEN 1 ELSE parseInt(modal.startLineInputEl).n
ModalEnd ==
  IF modal.endLineInputEl = <<>> THEN Len(before) ELSE parseInt(modal.endLineInputEl).n

\* C12: a submit of the level input modal with the 1-based range [s, e]
\* calls the core with the zero-based range s-1..e-1 (blank start: the first
\* line, blank end: the last line); the headers the core parses and adjusts
\* are exactly the header lines s..e, and no other line is rewritten.
C12_ModalRange ==
  runs > 0 =>
    /\ 1 <= ModalStart
    /\ (modal.startLineInputEl # <<>> /\ modal.endLineInputEl # <<>>)
         => ModalStart <= ModalEnd
    /\ StartLine = ModalStart - 1
    /\ EndLine = ModalEnd - 1
    /\ { headers[h].lineNumber : h \in 1..Len(headers) }
         = { i \in 1..Len(before) :
               ModalStart <= i /\ i <= ModalEnd /\ IsHeaderLine(before[i]) }
    /\ ModifiedLines \subseteq ModalStart..ModalEnd

\* a submit with start line 2 and end line 2 on a document of three headers:
\* the second line is rewritten, the first and third are parsed no more
C12_Witness ==
  /\ runs > 0
  /\ modal.startLineInputEl = <<"2">>
  /\ modal.endLineInputEl = <<"2">>
  /\ Len(before) = 3
  /\ \A i \in 1..3 : IsHeaderLine(before[i])
  /\ ModifiedLines = {2}
  /\ Len(headers) = 1

\* the parse of the range of the last run, taken again after the run
Reparsed == parseHeaders(buffer, StartLine, EndLine)

\* C13: after a completed run (either operation, magnitude >= 1) parsing the
\* same range of the rewritten buffer finds the same headers with the same
\* parents as the parse before the run.
C13_SameHierarchy ==
  (Adjusted /\ levels >= 1) =>
    /\ Len(Reparsed) = Len(headers)
    /\ \A i \in 1..Len(headers) :
         /\ Reparsed[i].lineNumber = headers[i].lineNumber
         /\ Reparsed[i].parent = headers[i].parent
         /\ Reparsed[i].children = headers[i].children

\* the nearest header before header i whose level is strictly smaller, or Null
NearestSmaller(hs, i) ==
  LET smaller == {j \in 1..(i - 1) : hs[j].level < hs[i].level} IN
  IF smaller = {} THEN Null ELSE CHOOSE j \in smaller : \A k \in smaller : k <= j

\* C14: parseHeaders gives each node as parent the nearest preceding node of
\* the parsed range whose level is strictly smaller, and no parent when there
\* is none; a header whose enclosing header lies before the range is a root,
\* and a level 2 header followed by a level 1 header are two roots.
C14_NearestSmallerParent ==
  runs > 0 =>
    /\ \A i \in 1..Len(headers) : headers[i].parent = NearestSmaller(headers, i)
    /\ [i \in 1..Len(headers) |-> headers[i].level] = <<2, 1>>
         => [i \in 1..Len(headers) |-> headers[i].parent] = <<Null, Null>>

\* a parse of a range that leaves out the line of a header's enclosing
\* header: the header is a root, and has a parent in a parse from line 0
C14_Witness ==
  /\ runs > 0
  /\ StartLine > 0
  /\ \E i \in 1..Len(headers) :
       /\ headers[i].parent = Null
       /\ \E w \in {parseHeaders(buffer, 0, EndLine)} :
            \E j \in 1..Len(w) :
              /\ w[j].lineNumber = headers[i].lineNumber
              /\ w[j].parent # Null

\* how many times header i stands in the children list of header q
Occurrences(hs, q, i) ==
  Cardinality({k \in 1..Len(hs[q].children) : hs[q].children[k] = i})

\* C15: what parseHeaders returns is a forest: a node stands once in the
\* children of its parent and in no other children list; a parent precedes
\* its children and has a strictly smaller originalLevel; every children list
\* is in ascending line order.
C15_ConsistentForest ==
  runs > 0 =>
    /\ \A i \in 1..Len(headers) :
         /\ headers[i].parent \in {Null} \cup (1..Len(headers))
         /\ \A q \in 1..Len(headers) :
              Occurrences(headers, q, i) = IF q = headers[i].parent THEN 1 ELSE 0
         /\ HasParent(i) =>
              /\ headers[headers[i].parent].lineNumber < headers[i].lineNumber
              /\ headers[headers[i].parent].originalLevel < headers[i].originalLevel
    /\ \A q \in 1..Len(headers) :
         \A a, b \in 1..Len(headers[q].children) :
           a < b => headers[headers[q].children[a]].lineNumber
                      < headers[headers[q].children[b]].lineNumber

\* a parse in which a header got its second child by the walk up from a
\* header nested under the first child
C15_Witness ==
  /\ runs > 0
  /\ \E q \in 1..Len(headers) :
       /\ Len(headers[q].children) >= 2
       /\ headers[q].children[2] > headers[q].children[1] + 1
       /\ headers[headers[q].children[1]].children # <<>>

\* a line begins with h hashes followed by a whitespace character
BeginsWith(line, h) ==
  /\ h < Len(line)
  /\ \A k \in 1..h : line[k] = "#"
  /\ line[h + 1] \in {" ", "\t"}

\* C16: parseHeaders(buffer, fromLine, toLine) returns, in ascending line
\* order, one node for each line i with max(0, fromLine) <= i <=
\* min(lineCount - 1, toLine) that begins with one to six hashes and a
\* whitespace character, with level = originalLevel = the number of hashes;
\* the buffer is as before; a range past the last line gives no node.
C16_ParseOutput ==
  runs > 0 =>
    LET lo == Max(0, fromLine[1])
        hi == Min(Len(buffer) - 1, toLine[1])
        expected == {i \in lo..hi : \E h \in MinLevel..MaxLevel : BeginsWith(buffer[i + 1], h)}
    IN /\ Len(headers) = Cardinality(expected)
       /\ \A k \in 1..Len(headers) :
            /\ headers[k].lineNumber - 1 \in expected
            /\ headers[k].level = headers[k].originalLevel
            /\ BeginsWith(buffer[headers[k].lineNumber], headers[k].level)
       /\ \A k \in 1..(Len(headers) - 1) :
            headers[k].lineNumber < headers[k + 1].lineNumber
       /\ buffer = before
       /\ fromLine[1] > Len(buffer) - 1 => headers = <<>>

\* a parse whose two line numbers lie outside the document, of a document
\* that holds a header and a line of seven hashes
C16_Witness ==
  /\ runs > 0
  /\ fromLine[1] < 0
  /\ toLine[1] > Len(buffer) - 1
  /\ headers # <<>>
  /\ \E i \in 1..Len(buffer) : CountHashes(buffer[i], 1) > MaxLevel

\* the forEach of updateHeaderLevels has visited header i
Visited(i) == \E k \in 1..Len(visited) : visited[k].header = i
\* the forEach is over
UpdateDone == runs > 0 /\ Len(visited) = Len(headers)

\* the headers as the forEach leaves them are those of updateHeaderLevels
UpdateStepsAgree ==
  UpdateDone =>
    headers = updateHeaderLevels(parseHeaders(buffer, 0, Len(buffer) - 1),
                                 operation, levels)

\* C17: updateHeaderLevels assigns each header's level once, and the level a
\* header has been assigned is final; a decrease visits a header after its
\* parent, an increase visits a header after all of its children.
C17_AssignmentOrder ==
  runs > 0 =>
    /\ \A j, k \in 1..Len(visited) : j # k => visited[j].header # visited[k].header
    /\ \A k \in 1..Len(visited) : headers[visited[k].header].level = visited[k].level
    /\ \A i \in 1..Len(headers) : ~Visited(i) => headers[i].level = headers[i].originalLevel
    /\ UpdateDone => \A i \in 1..Len(headers) : Visited(i)
    /\ operation = "decrease" =>
         \A k \in 1..Len(visited) :
           HasParent(visited[k].header) =>
             \E j \in 1..(k - 1) : visited[j].header = headers[visited[k].header].parent
    /\ operation = "increase" =>
         \A k \in 1..Len(visited) :
           \A c \in 1..Len(headers[visited[k].header].children) :
             \E j \in 1..(k - 1) :
               visited[j].header = headers[visited[k].header].children[c]

\* an increase that has come to a header with two children, both visited
\* and one of them moved
C17_Witness ==
  /\ runs > 0
  /\ operation = "increase"
  /\ \E k \in 1..Len(visited) :
       /\ Len(headers[visited[k].header].children) >= 2
       /\ \E c \in 1..2 :
            LET child == headers[visited[k].header].children[c] IN
            headers[child].level # headers[child].originalLevel

\* the checks of processHeaderAdjustment that the arguments of the last run
\* fail, in the order the claim gives them
FailsRange == StartLine > EndLine
FailsZero == levels = 0
FailsNegative == levels < 0
FailsNoHeaders == parseHeaders(before, StartLine, EndLine) = <<>>

\* C18: processHeaderAdjustment checks the range, then magnitude = 0, then
\* magnitude < 0, then whether any header was found; the first check that
\* fails decides the outcome, and each of the four aborts shows the user its
\* own message.
C18_ValidationOrder ==
  runs > 0 =>
    /\ FailsRange =>
         notice = <<Message("Start line is after end line, skipping adjustment.", <<>>)>>
    /\ (~FailsRange /\ FailsZero) =>
         notice = <<Message("Adjustment level is 0, skipping.", <<>>)>>
    /\ (~FailsRange /\ ~FailsZero /\ FailsNegative) =>
         notice = <<Message("Adjustment level is negative, skipping.", <<>>)>>
    /\ (~FailsRange /\ ~FailsZero /\ ~FailsNegative /\ FailsNoHeaders) =>
         notice = <<Message("No headers found in the specified range/selection.", <<>>)>>

\* the order alone: the first check that fails decides what the run logs or
\* shows, whatever later checks the arguments fail too
ValidationOrderLogged ==
  runs > 0 =>
    /\ FailsRange =>
         /\ console = <<Message("Start line is after end line, skipping adjustment.", <<>>)>>
         /\ notice = <<>>
    /\ (~FailsRange /\ FailsZero) =>
         /\ console = <<Message("Adjustment level is 0, skipping.", <<>>)>>
         /\ notice = <<>>
    /\ (~FailsRange /\ ~FailsZero /\ FailsNegative) =>
         /\ console = <<Message("Adjustment level is negative, skipping.", <<>>)>>
         /\ notice = <<>>
    /\ (~FailsRange /\ ~FailsZero /\ ~FailsNegative /\ FailsNoHeaders) =>
         notice = <<Message("No headers found in the specified range/selection.", <<>>)>>

\* the orders in which n changes can be applied
Orders(n) == {f \in [1..n -> 1..n] : \A a, b \in 1..n : a # b => f[a] # f[b]}

\* the changes applied one at a time, each to the buffer the one before left
RECURSIVE ApplyOneByOne(_, _, _, _)
ApplyOneByOne(editor, changes, order, k) ==
  IF k > Len(changes) THEN editor
  ELSE ApplyOneByOne(ReplaceRange(editor, changes[order[k]]), changes, order, k + 1)

\* C19: the changes of a transaction are in strictly descending line order
\* (so at most one per line), each replaces columns 0..originalLevel of the
\* line of its header, and applied one at a time in any order they give the
\* buffer the transaction gave.
C19_IndependentChanges ==
  (runs > 0 /\ transactions # <<>>) =>
    LET changes == transactions[1] IN
    /\ \A a, b \in 1..Len(changes) :
         a < b => changes[a].from.line > changes[b].from.line
    /\ \A a \in 1..Len(changes) :
         /\ changes[a].to.line = changes[a].from.line
         /\ changes[a].from.ch = 0
         /\ \E h \in Changed :
              /\ headers[h].lineNumber - 1 = changes[a].from.line
              /\ changes[a].to.ch = headers[h].originalLevel
    /\ \A order \in Orders(Len(changes)) :
         ApplyOneByOne(before, changes, order, 1) = buffer

\* a transaction of two or more changes to headers of different levels
C19_Witness ==
  /\ runs > 0
  /\ transactions # <<>>
  /\ Len(transactions[1]) >= 2
  /\ transactions[1][1].to.ch # transactions[1][2].to.ch
  /\ buffer # before

\* C20: an invocation of processHeaderAdjustment issues at most one
\* editor.transaction, and none when no header's level differs from its
\* originalLevel.
C20_AtMostOneTransaction ==
  runs > 0 =>
    /\ Len(transactions) <= 1
    /\ Changed = {} => transactions = <<>>

\* the smallest level among the children of header i, or MaxLevel + 1
RECURSIVE LowestChild(_, _, _)
LowestChild(hs, children, j) ==
  IF j > Len(children) THEN MaxLevel + 1
  ELSE Min(hs[children[j]].level, LowestChild(hs, children, j + 1))

\* C21: updateHeaderLevels changes nothing but level: originalLevel,
\* lineNumber, content, parent and children of every node and the order of
\* the array are as parsed; each level is the shift of originalLevel, clamped
\* and bounded by the parent's or the children's levels; at apply time
\* originalLevel is the number of leading hashes of the node's line.
C21_OnlyLevelChanges ==
  Adjusted =>
    LET parsed == parseHeaders(before, StartLine, EndLine) IN
    /\ Len(headers) = Len(parsed)
    /\ \A i \in 1..Len(headers) :
         /\ [headers[i] EXCEPT !.level = parsed[i].level] = parsed[i]
         /\ headers[i].originalLevel = CountHashes(before[headers[i].lineNumber], 1)
         /\ operation = "decrease" =>
              LET shifted == Max(MinLevel, headers[i].originalLevel - levels) IN
              headers[i].level =
                IF HasParent(i) THEN Max(shifted, headers[headers[i].parent].level + 1)
                ELSE shifted
         /\ operation = "increase" =>
              LET shifted == Min(MaxLevel, headers[i].originalLevel + levels) IN
              headers[i].level =
                Min(shifted, LowestChild(headers, headers[i].children, 1) - 1)

\* an increase of three or more headers in which a parent was held below
\* its child
C21_Witness ==
  /\ Adjusted
  /\ operation = "increase"
  /\ Len(headers) >= 3
  /\ \E i \in Changed :
       /\ headers[i].children # <<>>
       /\ headers[i].level # Min(MaxLevel, headers[i].originalLevel + levels)
       /\ headers[i].lineNumber < headers[headers[i].children[1]].lineNumber

\* C22: for any parsed forest and magnitude >= 1 a decrease leaves every
\* header at a level <= originalLevel and an increase at a level >=
\* originalLevel, also where a parent or a child overrode the shift.
C22_DirectionKept ==
  (Adjusted /\ levels >= 1) =>
    \A i \in 1..Len(headers) :
      /\ operation = "decrease" => headers[i].level <= headers[i].originalLevel
      /\ operation = "increase" => headers[i].level >= headers[i].originalLevel

\* a decrease in which the parent's level kept a header where it was, and an
\* other header moved
C22_Witness ==
  /\ Adjusted
  /\ operation = "decrease"
  /\ levels >= 1
  /\ Changed # {}
  /\ \E i \in 1..Len(headers) :
       /\ HasParent(i)
       /\ headers[i].originalLevel > MinLevel
       /\ headers[i].level = headers[i].originalLevel

\* the header lines of the range of the last run
RangeHeaders == {i \in 1..Len(before) : InRange(i) /\ IsHeaderLine(before[i])}

\* C23: one operation repeated over one range with any magnitudes >= 1
\* converges. From run to run no header's level moves against the operation,
\* and a run that rewrites the buffer moves a header; levels lie in 1..6, so
\* with n headers in the range at most 5n runs change anything. A run that
\* follows a run that changed nothing changes nothing and issues no
\* transaction.
C23_Converges ==
  runs > 0 =>
    /\ \A i \in RangeHeaders :
         /\ operation = "decrease" => CountHashes(buffer[i], 1) <= CountHashes(before[i], 1)
         /\ operation = "increase" => CountHashes(buffer[i], 1) >= CountHashes(before[i], 1)
    /\ buffer # before =>
         \E i \in RangeHeaders : CountHashes(buffer[i], 1) # CountHashes(before[i], 1)
    /\ runs > (MaxLevel - MinLevel) * Cardinality(RangeHeaders) =>
         (buffer = before /\ Changed = {})
    /\ (runs >= 2 /\ before = before2) =>
         (buffer = before /\ Changed = {} /\ transactions = <<>>)

\* a third or later run on headers that earlier runs rewrote, after a run
\* that changed nothing
C23_Witness ==
  /\ runs >= 3
  /\ Adjusted
  /\ before = before2
  /\ buffer = before
  /\ \E i \in 1..Len(headers) :
       /\ HasParent(i)
       /\ Len(HEADER_REGEX(buffer[headers[i].lineNumber])[2]) + headers[i].level + 1
            < Len(buffer[headers[i].lineNumber])

====
